---------------------------- MODULE Spec2Model ----------------------------
(* A model of backend/server.py: the lead scorer (calculate_lead_score),   *)
(* the message composer (generate_ai_messages) and the in-memory lead      *)
(* store with its five endpoints (upload, list, detail, dashboard,         *)
(* delete-all).                                                            *)
(*                                                                         *)
(* Strings that the code only compares or copies (names, cities, sources)  *)
(* are TLA+ strings.  Strings that the code takes apart (the generator's   *)
(* reply, the composed messages) are sequences of pieces: a piece is a     *)
(* label marker ("WHATSAPP:", "EMAIL:", "CALL:"), a newline, a space or a  *)
(* run of ordinary text.  A timestamp string is modelled by what           *)
(* datetime.fromisoformat reads from it: whether its date part is          *)
(* well-formed and the numbers of its time part.                           *)
EXTENDS Integers, Sequences, FiniteSets, TLC

VARIABLES
    leads_db,   \* the module-level list leads_db (server.py:25)
    next_id,    \* number of uuid4() identifiers drawn so far
    response,   \* the last HTTP response sent by an endpoint
    lead_input, \* scorer harness: the row handed to calculate_lead_score
    scored,     \* scorer harness: its result
    call,       \* composer harness: the lead and the generator's behaviour
    messages    \* composer harness: the AIMessages returned

vars == <<leads_db, next_id, response, lead_input, scored, call, messages>>

-----------------------------------------------------------------------------
(* Bounds of the model.                                                    *)

MaxLeads == 3
MaxRows == 2
MaxIds == 4
MaxReplyLen == 4

-----------------------------------------------------------------------------
(* Scoring configuration.                                                  *)

TARGET_CITIES == {"Hyderabad", "Vizag", "Bengaluru"}

HIGH_INTENT_SERVICES ==
    {"Real Estate Marketing", "Lead Generation", "SEO", "PPC",
     "Website Development"}

HIGH_VALUE_SOURCES == {"Google Ads", "Website"}

\* The columns the upload handler reads from each CSV row.
Columns ==
    {"name", "phone", "email", "source", "service_interest", "location",
     "timestamp"}

-----------------------------------------------------------------------------
(* Timestamps.  ts.date_ok: the text up to the time part is a well-formed  *)
(* ISO date; ts.time: the numbers of HH[:MM[:SS[.ffffff]]] as written.     *)

Field(ts, i) == IF Len(ts.time) >= i THEN ts.time[i] ELSE 0

fromisoformat(ts) ==
    IF /\ ts.date_ok
       /\ Len(ts.time) <= 4
       /\ Field(ts, 1) <= 23
       /\ Field(ts, 2) <= 59
       /\ Field(ts, 3) <= 59
       /\ Field(ts, 4) <= 999999
    THEN [ok |-> TRUE, hour |-> Field(ts, 1), minute |-> Field(ts, 2),
          second |-> Field(ts, 3), microsecond |-> Field(ts, 4)]
    ELSE [ok |-> FALSE, hour |-> 0, minute |-> 0, second |-> 0,
          microsecond |-> 0]

\* datetime.time ordering: lexicographic on (hour, minute, second, microsecond)
TimeLeq(a, b) ==
    \/ a.hour < b.hour
    \/ /\ a.hour = b.hour
       /\ \/ a.minute < b.minute
          \/ /\ a.minute = b.minute
             /\ \/ a.second < b.second
                \/ /\ a.second = b.second
                   /\ a.microsecond <= b.microsecond

dt_time(h, m) == [hour |-> h, minute |-> m, second |-> 0, microsecond |-> 0]

-----------------------------------------------------------------------------
(* Rows.  A row is what csv.DictReader yields: row.cols is the set of keys *)
(* the header gives it, row.none the keys whose value is None (a line      *)
(* shorter than the header).  The value of a None or absent key is unused. *)

HasKey(row, k) == k \in row.cols

IsNone(row, k) == k \in row.none

\* row['timestamp'] handed to fromisoformat inside the try of the scorer
BusinessHours(row) ==
    /\ HasKey(row, "timestamp")
    /\ ~IsNone(row, "timestamp")
    /\ fromisoformat(row.timestamp).ok
    /\ TimeLeq(dt_time(9, 0), fromisoformat(row.timestamp))
    /\ TimeLeq(fromisoformat(row.timestamp), dt_time(18, 0))

\* lead_data.get('email') is truthy
EmailPresent(row) ==
    /\ HasKey(row, "email")
    /\ ~IsNone(row, "email")
    /\ row.email # ""

InList(row, k, list) == ~IsNone(row, k) /\ row[k] \in list

Min(a, b) == IF a <= b THEN a ELSE b

CategoryOf_HotAbove70(score) ==
    IF score > 70 THEN "Hot" ELSE IF score >= 40 THEN "Warm" ELSE "Cold"

CategoryOf(score) ==
    IF score >= 70 THEN "Hot" ELSE IF score >= 40 THEN "Warm" ELSE "Cold"

\* The scorer raises KeyError when one of the three keys it indexes
\* outside its try block is absent.
ScoreRaises(row) ==
    \/ ~HasKey(row, "service_interest")
    \/ ~HasKey(row, "location")
    \/ ~HasKey(row, "source")

ScoreSum_Before18(row) ==
    (IF InList(row, "service_interest", HIGH_INTENT_SERVICES) THEN 25 ELSE 0)
    + (IF InList(row, "location", TARGET_CITIES) THEN 20 ELSE 0)
    + (IF InList(row, "source", HIGH_VALUE_SOURCES) THEN 20 ELSE 0)
    + (IF BusinessHours(row) /\ fromisoformat(row.timestamp).hour < 18
         THEN 15 ELSE 0)
    + (IF EmailPresent(row) THEN 10 ELSE 0)
    + 10

ScoreSum(row) ==
    (IF InList(row, "service_interest", HIGH_INTENT_SERVICES) THEN 25 ELSE 0)
    + (IF InList(row, "location", TARGET_CITIES) THEN 20 ELSE 0)
    + (IF InList(row, "source", HIGH_VALUE_SOURCES) THEN 20 ELSE 0)
    + (IF BusinessHours(row) THEN 15 ELSE 0)
    + (IF EmailPresent(row) THEN 10 ELSE 0)
    + 10

calculate_lead_score(row) ==
    LET score == Min(ScoreSum(row), 100)
    IN  [score |-> score, category |-> CategoryOf(score)]

-----------------------------------------------------------------------------
(* Text as a sequence of pieces.                                           *)

NL == "\n"

WHATSAPP == "WHATSAPP:"

EMAIL == "EMAIL:"

CALL == "CALL:"

Markers == {WHATSAPP, EMAIL, CALL}

Whitespace == {" ", NL}

RECURSIVE LStrip(_)
LStrip(s) ==
    IF s = <<>> THEN s
    ELSE IF Head(s) \in Whitespace THEN LStrip(Tail(s)) ELSE s

RECURSIVE RStrip(_)
RStrip(s) ==
    IF s = <<>> THEN s
    ELSE IF s[Len(s)] \in Whitespace THEN RStrip(SubSeq(s, 1, Len(s) - 1))
    ELSE s

\* str.strip()
Strip(s) == RStrip(LStrip(s))

\* str.replace(marker, '')
Remove(s, marker) == SelectSeq(s, LAMBDA p : p # marker)

\* marker in s
Contains(s, marker) == \E i \in 1..Len(s) : s[i] = marker

\* s.startswith(marker)
StartsWith(s, marker) == s # <<>> /\ s[1] = marker

\* the first index at which sep occurs in s, 0 when it does not
FirstAt(s, sep) ==
    LET hits == {i \in 1..(Len(s) - Len(sep) + 1) :
                    SubSeq(s, i, i + Len(sep) - 1) = sep}
    IN  IF hits = {} THEN 0 ELSE CHOOSE i \in hits : \A j \in hits : i <= j

\* str.split(sep): leftmost, non-overlapping occurrences of sep
RECURSIVE Split(_, _)
Split(s, sep) ==
    LET i == FirstAt(s, sep)
    IN  IF i = 0 THEN <<s>>
        ELSE <<SubSeq(s, 1, i - 1)>>
             \o Split(SubSeq(s, i + Len(sep), Len(s)), sep)

\* '\n'.join(parts)
RECURSIVE JoinLines(_)
JoinLines(parts) ==
    IF parts = <<>> THEN <<>>
    ELSE IF Len(parts) = 1 THEN parts[1]
    ELSE parts[1] \o <<NL>> \o JoinLines(Tail(parts))

-----------------------------------------------------------------------------
(* generate_ai_messages: the templates.                                    *)

\* the per-field templates of the success path (server.py:230-232)
TemplateWhatsapp(lead) ==
    <<"Hi ", lead.name, "! We saw your interest in ", lead.service_interest,
      ". Let's discuss how we can help you grow!">>

TemplateEmail(lead) ==
    <<"Subject: Your ", lead.service_interest, " Inquiry", NL, NL, "Hi ",
      lead.name, ",", NL, NL,
      "Thank you for your interest. We'd love to discuss your ",
      lead.service_interest, " needs.">>

TemplateCall(lead) ==
    <<"Hi ", lead.name, ", I'm calling about your interest in ",
      lead.service_interest, ". Is this a good time to chat?">>

\* the templates of the except branch (server.py:237-241)
FallbackMessages(lead) ==
    [whatsapp |->
        <<"Hi ", lead.name, "! We saw your interest in ",
          lead.service_interest,
          ". Can we schedule a quick call to discuss your needs?">>,
     email |->
        <<"Subject: Your ", lead.service_interest, " Inquiry", NL, NL, "Hi ",
          lead.name, ",", NL, NL, "Thank you for reaching out regarding ",
          lead.service_interest,
          ". We'd love to help you achieve your marketing goals in ",
          lead.location, ".", NL, NL, "Best regards,", NL, "Marketing Team">>,
     call_script |->
        <<"Hi ", lead.name,
          ", this is [Your Name] from [Agency]. I'm calling about your interest in ",
          lead.service_interest,
          ". Do you have a few minutes to discuss how we can help?">>]

-----------------------------------------------------------------------------
(* generate_ai_messages: the parser.  A parse state holds the three        *)
(* message variables and, for the second pass, current_section ("none"     *)
(* for Python's None) and the list section_content.                        *)

EmptyParse ==
    [whatsapp |-> <<>>, email |-> <<>>, call |-> <<>>,
     current_section |-> "none", section_content |-> <<>>]

Tier1Section_Untrimmed(st, section) ==
    IF StartsWith(Strip(section), WHATSAPP)
    THEN [st EXCEPT !.whatsapp = Remove(section, WHATSAPP)]
    ELSE IF StartsWith(Strip(section), EMAIL)
    THEN [st EXCEPT !.email = Remove(section, EMAIL)]
    ELSE IF StartsWith(Strip(section), CALL)
    THEN [st EXCEPT !.call = Remove(section, CALL)]
    ELSE st

\* one iteration of "for section in sections" (server.py:185-191)
Tier1Section(st, section) ==
    IF StartsWith(Strip(section), WHATSAPP)
    THEN [st EXCEPT !.whatsapp = Strip(Remove(section, WHATSAPP))]
    ELSE IF StartsWith(Strip(section), EMAIL)
    THEN [st EXCEPT !.email = Strip(Remove(section, EMAIL))]
    ELSE IF StartsWith(Strip(section), CALL)
    THEN [st EXCEPT !.call = Strip(Remove(section, CALL))]
    ELSE st

RECURSIVE Tier1Loop(_, _)
Tier1Loop(st, sections) ==
    IF sections = <<>> THEN st
    ELSE Tier1Loop(Tier1Section(st, Head(sections)), Tail(sections))

\* the first pass: split on '\n\n' and read each block's label
Tier1(response_text) == Tier1Loop(EmptyParse, Split(response_text, <<NL, NL>>))

\* "if not whatsapp_msg or not email_msg or not call_msg"
Tier2Needed(st) == st.whatsapp = <<>> \/ st.email = <<>> \/ st.call = <<>>

\* "if current_section and section_content"
Active(st) == st.current_section # "none" /\ st.section_content # <<>>

Buffer(st) == Strip(JoinLines(st.section_content))

\* what is stored when a WHATSAPP: line is met (server.py:201-207)
FlushOnWhatsapp(st) ==
    IF ~Active(st) THEN st
    ELSE IF st.current_section = "whatsapp"
    THEN [st EXCEPT !.whatsapp = Buffer(st)]
    ELSE IF st.current_section = "email"
    THEN [st EXCEPT !.email = Buffer(st)]
    ELSE IF st.current_section = "call"
    THEN [st EXCEPT !.call = Buffer(st)]
    ELSE st

\* what is stored when an EMAIL: line is met (server.py:211-213)
FlushOnEmail(st) ==
    IF Active(st) /\ st.current_section = "whatsapp"
    THEN [st EXCEPT !.whatsapp = Buffer(st)]
    ELSE st

\* what is stored when a CALL: line is met (server.py:217-219)
FlushOnCall(st) ==
    IF Active(st) /\ st.current_section = "email"
    THEN [st EXCEPT !.email = Buffer(st)]
    ELSE st

\* "Capture the last section" (server.py:226-227)
FlushAtEnd(st) ==
    IF st.current_section = "call" /\ st.section_content # <<>>
    THEN [st EXCEPT !.call = Buffer(st)]
    ELSE st

Open(st, name, line, marker) ==
    [st EXCEPT !.current_section = name,
               !.section_content = <<Strip(Remove(line, marker))>>]

\* one iteration of "for line in lines" (server.py:199-223)
Tier2Line(st, line) ==
    IF Contains(line, WHATSAPP)
    THEN Open(FlushOnWhatsapp(st), "whatsapp", line, WHATSAPP)
    ELSE IF Contains(line, EMAIL)
    THEN Open(FlushOnEmail(st), "email", line, EMAIL)
    ELSE IF Contains(line, CALL)
    THEN Open(FlushOnCall(st), "call", line, CALL)
    ELSE IF st.current_section # "none"
    THEN [st EXCEPT !.section_content = Append(@, line)]
    ELSE st

RECURSIVE Tier2Loop(_, _)
Tier2Loop(st, lines) ==
    IF lines = <<>> THEN st
    ELSE Tier2Loop(Tier2Line(st, Head(lines)), Tail(lines))

\* the second pass, started from the first pass's three variables
Tier2(st, response_text) ==
    FlushAtEnd(Tier2Loop([st EXCEPT !.current_section = "none",
                                    !.section_content = <<>>],
                         Split(response_text, <<NL>>)))

\* the three variables when the return statement is reached
Parse(response_text) ==
    LET t1 == Tier1(response_text)
    IN  IF Tier2Needed(t1) THEN Tier2(t1, response_text) ELSE t1

Or(msg, template) == IF msg # <<>> THEN msg ELSE template

\* the AIMessages of the return statement (server.py:229-233)
WithTemplates_NoCallTemplate(lead, st) ==
    [whatsapp |-> Or(st.whatsapp, TemplateWhatsapp(lead)),
     email |-> Or(st.email, TemplateEmail(lead)),
     call_script |-> st.call]

WithTemplates(lead, st) ==
    [whatsapp |-> Or(st.whatsapp, TemplateWhatsapp(lead)),
     email |-> Or(st.email, TemplateEmail(lead)),
     call_script |-> Or(st.call, TemplateCall(lead))]

\* The generator's behaviour: gen.kind is "raise" (the create call raises),
\* "no_choices" (response.choices[0] raises IndexError), "content_none"
\* (message.content is None and .split raises AttributeError) or "text"
\* (message.content is the string gen.text).
GenFails_NoneAsEmpty(gen) == gen.kind \in {"raise", "no_choices"}

GenFails(gen) == gen.kind # "text"

\* which branch produced the result: "except", "tier1" or "tier2"
PathOf(gen) ==
    IF GenFails(gen) THEN "except"
    ELSE IF Tier2Needed(Tier1(gen.text)) THEN "tier2" ELSE "tier1"

generate_ai_messages(lead, gen) ==
    IF GenFails(gen) THEN FallbackMessages(lead)
    ELSE WithTemplates(lead, Parse(gen.text))

-----------------------------------------------------------------------------
(* The lead store and its endpoints.  A stored document is                 *)
(* Lead.model_dump() with created_at turned into text; created_at keeps    *)
(* only which of the two it currently is, "str" or "datetime".             *)

\* Python's None as the value of the optional email field
NoneValue == "<None>"

RequiredStr ==
    {"name", "phone", "source", "service_interest", "location", "timestamp"}

\* row.get('email', '')
EmailOf(row) ==
    IF ~HasKey(row, "email") THEN ""
    ELSE IF IsNone(row, "email") THEN NoneValue
    ELSE row.email

\* The loop body raises for this row: KeyError in the scorer or in
\* row[...], or pydantic's ValidationError for a None in a str field.
RowRaises(row) ==
    \/ ScoreRaises(row)
    \/ \E k \in RequiredStr : ~HasKey(row, k) \/ IsNone(row, k)

\* lead.model_dump() with created_at made text (server.py:255-269)
MakeDoc(row, id) ==
    [id |-> id,
     name |-> row.name,
     phone |-> row.phone,
     email |-> EmailOf(row),
     source |-> row.source,
     service_interest |-> row.service_interest,
     location |-> row.location,
     timestamp |-> row.timestamp,
     score |-> calculate_lead_score(row).score,
     category |-> calculate_lead_score(row).category,
     created_at |-> "str"]

\* "for row in reader" with its appends, up to the first row that raises
RECURSIVE UploadLoop(_, _, _, _)
UploadLoop(db, ids, rows, created) ==
    IF rows = <<>>
    THEN [leads_db |-> db, next_id |-> ids,
          response |-> [op |-> "upload", status |-> 200, count |-> created]]
    ELSE IF RowRaises(Head(rows))
    THEN [leads_db |-> db, next_id |-> ids,
          response |-> [op |-> "upload", status |-> 400, count |-> 0]]
    ELSE UploadLoop(Append(db, MakeDoc(Head(rows), ids + 1)), ids + 1,
                    Tail(rows), created + 1)

\* upload_leads: contents.decode('utf-8') raises for an undecodable file
upload_leads(db, ids, file) ==
    IF ~file.decodable
    THEN [leads_db |-> db, next_id |-> ids,
          response |-> [op |-> "upload", status |-> 400, count |-> 0]]
    ELSE UploadLoop(db, ids, file.rows, 0)

\* sorted(..., reverse=True) is stable: x goes after every element whose
\* score is at least its own
RECURSIVE InsertByScore_Ascending(_, _)
InsertByScore_Ascending(sorted, x) ==
    IF sorted = <<>> THEN <<x>>
    ELSE IF Head(sorted).score <= x.score
    THEN <<Head(sorted)>> \o InsertByScore_Ascending(Tail(sorted), x)
    ELSE <<x>> \o sorted

RECURSIVE InsertByScore(_, _)
InsertByScore(sorted, x) ==
    IF sorted = <<>> THEN <<x>>
    ELSE IF Head(sorted).score >= x.score
    THEN <<Head(sorted)>> \o InsertByScore(Tail(sorted), x)
    ELSE <<x>> \o sorted

RECURSIVE SortedByScore(_)
SortedByScore(db) ==
    IF db = <<>> THEN <<>>
    ELSE InsertByScore(SortedByScore(SubSeq(db, 1, Len(db) - 1)), db[Len(db)])

\* the loop of get_leads and the assignment of get_lead_with_messages:
\* created_at is parsed back in place, in the stored document
AsDatetime(doc) == [doc EXCEPT !.created_at = "datetime"]

\* get_leads (server.py:279-290)
get_leads(db) ==
    LET stored == [i \in 1..Len(db) |-> AsDatetime(db[i])]
    IN  [leads_db |-> stored,
         response |-> [op |-> "list", status |-> 200,
                       leads |-> SortedByScore(stored)]]

\* next((lead for lead in leads_db if lead['id'] == lead_id), None):
\* the index of the first match, 0 for None
FindLead(db, lead_id) ==
    LET hits == {i \in 1..Len(db) : db[i].id = lead_id}
    IN  IF hits = {} THEN 0 ELSE CHOOSE i \in hits : \A j \in hits : i <= j

\* get_lead_with_messages (server.py:292-309)
get_lead_with_messages(db, lead_id, gen) ==
    LET i == FindLead(db, lead_id)
    IN  IF i = 0
        THEN [leads_db |-> db,
              response |-> [op |-> "detail", status |-> 404]]
        ELSE [leads_db |-> [db EXCEPT ![i] = AsDatetime(db[i])],
              response |-> [op |-> "detail", status |-> 200,
                            lead |-> AsDatetime(db[i]),
                            ai_messages |->
                                generate_ai_messages(AsDatetime(db[i]), gen)]]

Parses_Always(doc) == TRUE

\* the stored timestamp parses (the try of server.py:328-333 succeeds)
Parses(doc) == fromisoformat(doc.timestamp).ok

HourOf(doc) == fromisoformat(doc.timestamp).hour

\* hour_counts[hour] after the loop over leads_db
HourCount(db, hour) ==
    Cardinality({i \in 1..Len(db) : Parses(db[i]) /\ HourOf(db[i]) = hour})

\* the keys of hour_counts in the order the dict holds them: an hour is
\* inserted when the first lead with that hour is met
RECURSIVE AddHours(_, _)
AddHours(keys, leads) ==
    IF leads = <<>> THEN keys
    ELSE AddHours(IF /\ Parses(Head(leads))
                     /\ ~\E i \in 1..Len(keys) : keys[i] = HourOf(Head(leads))
                  THEN Append(keys, HourOf(Head(leads)))
                  ELSE keys,
                  Tail(leads))

HourKeys(db) == AddHours(<<>>, db)

\* the places in keys of the hours whose count no other key exceeds
TopKeys(db, keys) ==
    {i \in 1..Len(keys) :
        \A k \in 1..Len(keys) :
            HourCount(db, keys[k]) <= HourCount(db, keys[i])}

Lowest(S) == CHOOSE x \in S : \A y \in S : x <= y

FirstTop(keys, top) == keys[Lowest(top)]

LowestTop(keys, top) == Lowest({keys[i] : i \in top})

BestHour_LowestOnTie(db) ==
    LowestTop(HourKeys(db), TopKeys(db, HourKeys(db)))

\* max(hour_counts, key=hour_counts.get): the first key, in the dict's
\* order, whose count no other key exceeds
BestHour(db) == FirstTop(HourKeys(db), TopKeys(db, HourKeys(db)))

BucketOf(best_hour) ==
    IF 9 <= best_hour /\ best_hour < 12 THEN "Morning (9 AM - 12 PM)"
    ELSE IF 12 <= best_hour /\ best_hour < 15 THEN "Afternoon (12 PM - 3 PM)"
    ELSE IF 15 <= best_hour /\ best_hour < 18 THEN "Late Afternoon (3 PM - 6 PM)"
    ELSE IF 18 <= best_hour /\ best_hour < 21 THEN "Evening (6 PM - 9 PM)"
    ELSE "Off Hours"

\* "if hour_counts: ... else: best_time = 'No data'"
BestTime(db) ==
    IF HourKeys(db) # <<>> THEN BucketOf(BestHour(db)) ELSE "No data"

CountCategory_ByScore(db, category) ==
    Cardinality({i \in 1..Len(db) : CategoryOf_HotAbove70(db[i].score) = category})

CountCategory(db, category) ==
    Cardinality({i \in 1..Len(db) : db[i].category = category})

\* the dict source_distribution: its keys are the sources met
SourceDistribution(db) ==
    [src \in {db[i].source : i \in 1..Len(db)} |->
        Cardinality({i \in 1..Len(db) : db[i].source = src})]

\* get_dashboard_stats (server.py:311-357)
get_dashboard_stats(db) ==
    [op |-> "dashboard", status |-> 200,
     total_leads |-> Len(db),
     hot_count |-> CountCategory(db, "Hot"),
     warm_count |-> CountCategory(db, "Warm"),
     cold_count |-> CountCategory(db, "Cold"),
     source_distribution |-> SourceDistribution(db),
     best_time_of_day |-> BestTime(db)]

\* delete_all_leads (server.py:359-365)
delete_all_leads(db) ==
    [leads_db |-> <<>>,
     response |-> [op |-> "delete", status |-> 200, deleted_count |-> Len(db)]]

-----------------------------------------------------------------------------
(* Inputs.                                                                 *)

Ts(time) == [date_ok |-> TRUE, time |-> time]

BadTs == [date_ok |-> FALSE, time |-> <<>>]

Row(name, email, source, service, location, timestamp, cols, none) ==
    [name |-> name, phone |-> "+91-9999999999", email |-> email,
     source |-> source, service_interest |-> service, location |-> location,
     timestamp |-> timestamp, cols |-> cols, none |-> none]

\* The rows offered to the upload endpoint: scores 100, 40, 10 and 70,
\* hours 10, 20, none and 9; a row one field short (its timestamp is None)
\* and a row of a file whose header has no name column.
HotRow ==
    Row("Asha", "asha@e.com", "Website", "SEO", "Hyderabad",
        Ts(<<10, 30, 0>>), Columns, {})

WarmRow ==
    Row("Bala", "bala@e.com", "Facebook", "Branding", "Hyderabad",
        Ts(<<20, 15, 0>>), Columns, {})

ColdRow ==
    Row("Chitra", "", "Referral", "Branding", "Delhi", BadTs,
        Columns \ {"email"}, {})

NineRow ==
    Row("Dev", "", "Referral", "SEO", "Vizag", Ts(<<9, 0, 0>>),
        Columns, {})

ShortRow ==
    Row("Farid", "farid@e.com", "Website", "SEO", "Hyderabad", BadTs,
        Columns, {"timestamp"})

NoNameRow ==
    Row("", "g@e.com", "Website", "SEO", "Hyderabad", Ts(<<11, 0, 0>>),
        Columns \ {"name"}, {})

RowSamples ==
    {HotRow, WarmRow, ColdRow, NineRow, ShortRow, NoNameRow}

SeqsUpTo(S, n) == UNION {[1..k -> S] : k \in 0..n}

\* A decodable file gives all its rows the keys of its one header.
Files ==
    {[decodable |-> FALSE, rows |-> <<>>]}
    \cup {[decodable |-> TRUE, rows |-> rows] :
            rows \in {r \in SeqsUpTo(RowSamples, MaxRows) :
                        \A i, j \in 1..Len(r) : r[i].cols = r[j].cols}}

Gen(kind, text) == [kind |-> kind, text |-> text]

GenFailures ==
    {Gen("raise", <<>>), Gen("no_choices", <<>>), Gen("content_none", <<>>)}

\* The generator behaviours offered to the detail endpoint.
GenSamples ==
    {Gen("raise", <<>>), Gen("content_none", <<>>),
     Gen("text", <<WHATSAPP, "a", NL, NL, EMAIL, "b", NL, NL, CALL, "c">>),
     Gen("text", <<EMAIL, "b", NL, CALL, "c">>)}

-----------------------------------------------------------------------------
(* The store: one action per endpoint.                                     *)

NoResponse == [op |-> "none", status |-> 0]

Idle == [done |-> FALSE]

Init ==
    /\ leads_db = <<>>
    /\ next_id = 0
    /\ response = NoResponse
    /\ lead_input = Idle
    /\ scored = Idle
    /\ call = Idle
    /\ messages = Idle

\* the handler's outcome r becomes the state
Becomes(r) ==
    /\ leads_db' = r.leads_db
    /\ next_id' = r.next_id
    /\ response' = r.response

UploadFrom(files) ==
    \E file \in files :
        /\ Len(leads_db) + Len(file.rows) <= MaxLeads
        /\ next_id + Len(file.rows) <= MaxIds
        /\ Becomes(upload_leads(leads_db, next_id, file))
        /\ UNCHANGED <<lead_input, scored, call, messages>>

Upload == UploadFrom(Files)

List ==
    /\ leads_db' = get_leads(leads_db).leads_db
    /\ response' = get_leads(leads_db).response
    /\ UNCHANGED <<next_id, lead_input, scored, call, messages>>

Detail ==
    \E lead_id \in 1..MaxIds, gen \in GenSamples :
        /\ leads_db' = get_lead_with_messages(leads_db, lead_id, gen).leads_db
        /\ response' = get_lead_with_messages(leads_db, lead_id, gen).response
        /\ UNCHANGED <<next_id, lead_input, scored, call, messages>>

Dashboard ==
    /\ response' = get_dashboard_stats(leads_db)
    /\ UNCHANGED <<leads_db, next_id, lead_input, scored, call, messages>>

DeleteAll ==
    /\ leads_db' = delete_all_leads(leads_db).leads_db
    /\ response' = delete_all_leads(leads_db).response
    /\ UNCHANGED <<next_id, lead_input, scored, call, messages>>

Next == Upload \/ List \/ Detail \/ Dashboard \/ DeleteAll

Spec == Init /\ [][Next]_vars

-----------------------------------------------------------------------------
(* The dashboard over leads of many hours: the store with single-row       *)
(* uploads, the dashboard and delete-all.                                  *)

HourStamps ==
    {Ts(<<8, 59, 59>>), Ts(<<9, 0, 0>>), Ts(<<11, 59, 59>>), Ts(<<14, 0, 0>>),
     Ts(<<17, 59, 0>>), Ts(<<18, 0, 0>>), Ts(<<20, 30, 0>>), Ts(<<21, 0, 0>>),
     BadTs}

HourFiles ==
    {[decodable |-> TRUE,
      rows |-> <<Row("Lead", "", "Website", "SEO", "Delhi", ts, Columns, {})>>] :
        ts \in HourStamps}

UploadHour == UploadFrom(HourFiles)

NextDashboard == UploadHour \/ Dashboard \/ DeleteAll

SpecDashboard == Init /\ [][NextDashboard]_vars

-----------------------------------------------------------------------------
(* The scorer on its own: a row is drawn, calculate_lead_score is applied. *)

StampSamples ==
    {Ts(<<>>), Ts(<<9>>), Ts(<<12, 30>>), Ts(<<8, 59, 59, 999999>>),
     Ts(<<9, 0, 0>>), Ts(<<17, 59, 59, 999999>>), Ts(<<18, 0, 0>>),
     Ts(<<18, 0, 0, 1>>), Ts(<<18, 0, 1>>), Ts(<<18, 1>>), Ts(<<23, 59, 59>>),
     Ts(<<24, 0, 0>>), Ts(<<10, 60>>), BadTs,
     [date_ok |-> FALSE, time |-> <<10, 30, 0>>]}

\* Rows that have the three keys the scorer indexes outside its try block.
ScoreInputs ==
    {Row("Lead", email, source, service, location, ts, cols, none) :
        email \in {"", "t@e.com"},
        source \in {"Website", "Google Ads", "Facebook"},
        service \in {"SEO", "Website Development", "Branding"},
        location \in {"Bengaluru", "Delhi"},
        ts \in StampSamples,
        cols \in {Columns, Columns \ {"email"}, Columns \ {"timestamp"}},
        none \in SUBSET {"email", "timestamp", "location"}}

InitScore ==
    /\ leads_db = <<>>
    /\ next_id = 0
    /\ response = NoResponse
    /\ lead_input \in {r \in ScoreInputs : r.none \subseteq r.cols}
    /\ scored = Idle
    /\ call = Idle
    /\ messages = Idle

Score ==
    /\ ~scored.done
    /\ scored' = [done |-> TRUE,
                  score |-> calculate_lead_score(lead_input).score,
                  category |-> calculate_lead_score(lead_input).category]
    /\ UNCHANGED <<leads_db, next_id, response, lead_input, call, messages>>

NextScore == Score

SpecScore == InitScore /\ [][NextScore]_vars

-----------------------------------------------------------------------------
(* The composer on its own: a lead and a behaviour of the generator are    *)
(* drawn, generate_ai_messages is applied.  call.shape records how the     *)
(* reply was built.                                                        *)

Alphabet == {WHATSAPP, EMAIL, CALL, NL, " ", "a", "b"}

\* every reply of at most MaxReplyLen pieces
FreeTexts == SeqsUpTo(Alphabet, MaxReplyLen)

\* the orders in which the three labels can come
Orders ==
    {o \in [1..3 -> Markers] : \A i, j \in 1..3 : o[i] = o[j] => i = j}

\* texts to follow a label in a block: plain, with leading or trailing
\* white space, of several lines, blank, and holding a label
BlockTexts ==
    {<<"a">>, <<NL, "b">>, <<"c", " ", "a">>, <<"b", NL, "c", " ">>, <<" ">>,
     <<"a", WHATSAPP, "b">>, <<"b", EMAIL>>, <<"c", CALL, "a">>}

BlankLines == {<<NL, NL>>, <<NL, NL, NL>>}

\* three blocks, each a label and its text, with blank lines between
BlockReply(order, texts, sep) ==
    <<order[1]>> \o texts[1] \o sep \o <<order[2]>> \o texts[2] \o sep
    \o <<order[3]>> \o texts[3]

BlockShapes ==
    {[family |-> "blocks", order |-> o, texts |-> t, sep |-> sep,
      prefix |-> <<>>] :
        o \in Orders,
        t \in {u \in [1..3 -> BlockTexts] :
                 \A i, j \in 1..3 : u[i] = u[j] => i = j},
        sep \in BlankLines}

\* texts, text ahead of a label on its line, and what joins the sections
InlineTexts == {<<" ", "a">>, <<" ", "b">>, <<" ", "c">>, <<NL, "c">>}

Prefixes == {<<>>, <<" ">>, <<"x", " ">>}

Joiners == {<<NL>>, <<" ">>}

\* three sections with no blank line between them, each label possibly
\* in the middle of its line
InlineReply(order, texts, sep, prefix) ==
    prefix \o <<order[1]>> \o texts[1] \o sep
    \o prefix \o <<order[2]>> \o texts[2] \o sep
    \o prefix \o <<order[3]>> \o texts[3]

InlineShapes ==
    {[family |-> "inline", order |-> o, texts |-> t, sep |-> sep,
      prefix |-> pre] :
        o \in Orders,
        t \in {u \in [1..3 -> InlineTexts] :
                 \A i, j \in 1..3 : u[i] = u[j] => i = j},
        sep \in Joiners,
        pre \in Prefixes}

FreeShape == [family |-> "free"]

ComposeLeads ==
    {[name |-> "Asha", service_interest |-> "SEO", location |-> "Hyderabad",
      category |-> "Hot"],
     [name |-> "", service_interest |-> "", location |-> "",
      category |-> "Cold"]}

Calls ==
    {[lead |-> lead, gen |-> gen, shape |-> FreeShape] :
        lead \in ComposeLeads,
        gen \in GenFailures \cup {Gen("text", t) : t \in FreeTexts}}
    \cup {[lead |-> lead,
           gen |-> Gen("text", BlockReply(sh.order, sh.texts, sh.sep)),
           shape |-> sh] :
            lead \in ComposeLeads, sh \in BlockShapes}
    \cup {[lead |-> lead,
           gen |-> Gen("text", InlineReply(sh.order, sh.texts, sh.sep, sh.prefix)),
           shape |-> sh] :
            lead \in ComposeLeads, sh \in InlineShapes}

InitCompose ==
    /\ leads_db = <<>>
    /\ next_id = 0
    /\ response = NoResponse
    /\ lead_input = Idle
    /\ scored = Idle
    /\ call \in Calls
    /\ messages = Idle

Compose ==
    /\ ~messages.done
    /\ messages' = [done |-> TRUE,
                    path |-> PathOf(call.gen),
                    result |-> generate_ai_messages(call.lead, call.gen)]
    /\ UNCHANGED <<leads_db, next_id, response, lead_input, scored, call>>

NextCompose == Compose

SpecCompose == InitCompose /\ [][NextCompose]_vars

-----------------------------------------------------------------------------
(* Properties of the stored leads and of the scorer.                       *)

\* C1: every stored lead has an integer score in [0,100] and a category
\* that is exactly one of Hot, Warm, Cold, with Hot iff score >= 70, Warm
\* iff 40 <= score < 70 and Cold iff score < 40.
C1_StoredScoreAndCategory ==
    \A i \in 1..Len(leads_db) :
        LET d == leads_db[i]
        IN  /\ d.score \in 0..100
            /\ d.category \in {"Hot", "Warm", "Cold"}
            /\ d.category = "Hot" <=> d.score >= 70
            /\ d.category = "Warm" <=> (40 <= d.score /\ d.score < 70)
            /\ d.category = "Cold" <=> d.score < 40

\* a full store holding a lead at each threshold, after a listing
C1_Witness ==
    /\ Len(leads_db) = MaxLeads
    /\ response.op = "list"
    /\ \E i, j, k \in 1..Len(leads_db) :
        /\ leads_db[i].score = 70 /\ leads_db[i].category = "Hot"
        /\ leads_db[j].score = 40 /\ leads_db[j].category = "Warm"
        /\ leads_db[k].score = 10 /\ leads_db[k].category = "Cold"

\* the time of day of a parsed timestamp, in whole seconds
SecondsOfDay(t) == (t.hour * 60 + t.minute) * 60 + t.second

\* the five bonus conditions of a row, as the rules state them
IsHighIntent(row) ==
    "service_interest" \notin row.none
    /\ row.service_interest \in HIGH_INTENT_SERVICES

IsTargetCity(row) ==
    "location" \notin row.none /\ row.location \in TARGET_CITIES

IsHighValue(row) == "source" \notin row.none /\ row.source \in HIGH_VALUE_SOURCES

HasTimestamp(row) ==
    "timestamp" \in row.cols /\ "timestamp" \notin row.none
    /\ fromisoformat(row.timestamp).ok

InWindow(row) ==
    /\ HasTimestamp(row)
    /\ 9 * 3600 <= SecondsOfDay(fromisoformat(row.timestamp))
    /\ \/ SecondsOfDay(fromisoformat(row.timestamp)) < 18 * 3600
       \/ /\ SecondsOfDay(fromisoformat(row.timestamp)) = 18 * 3600
          /\ fromisoformat(row.timestamp).microsecond = 0

HasEmail(row) ==
    "email" \in row.cols /\ "email" \notin row.none /\ row.email # ""

Bonus(cond, points) == IF cond THEN points ELSE 0

\* C2: the score is min(100, 10 + 25*[high-intent service] + 20*[target
\* city] + 20*[high-value source] + 15*[timestamp parses and lies in
\* 09:00..18:00, ends included] + 10*[email present and non-empty]); all
\* five conditions give 100 / Hot, none of them gives 10 / Cold.
C2_ScoreFormula ==
    scored.done =>
        LET row == lead_input
            sum == 10 + Bonus(IsHighIntent(row), 25) + Bonus(IsTargetCity(row), 20)
                   + Bonus(IsHighValue(row), 20) + Bonus(InWindow(row), 15)
                   + Bonus(HasEmail(row), 10)
        IN  /\ scored.score = (IF sum > 100 THEN 100 ELSE sum)
            /\ (IsHighIntent(row) /\ IsTargetCity(row) /\ IsHighValue(row)
                /\ InWindow(row) /\ HasEmail(row))
               => (scored.score = 100 /\ scored.category = "Hot")
            /\ (~IsHighIntent(row) /\ ~IsTargetCity(row) /\ ~IsHighValue(row)
                /\ ~InWindow(row) /\ ~HasEmail(row))
               => (scored.score = 10 /\ scored.category = "Cold")

\* a row at 18:00:00 sharp with the other four conditions met
C2_Witness ==
    /\ scored.done
    /\ lead_input.timestamp = Ts(<<18, 0, 0>>)
    /\ lead_input.none = {}
    /\ lead_input.cols = Columns
    /\ scored.score = 100
    /\ scored.category = "Hot"

-----------------------------------------------------------------------------
(* Properties of the composer.                                             *)

\* nothing is left of s after trimming
IsBlank(s) == \A i \in 1..Len(s) : s[i] \in Whitespace \cup {""}

FieldOf(result, marker) ==
    IF marker = WHATSAPP THEN result.whatsapp
    ELSE IF marker = EMAIL THEN result.email
    ELSE result.call_script

TemplateOf(lead, marker) ==
    IF marker = WHATSAPP THEN TemplateWhatsapp(lead)
    ELSE IF marker = EMAIL THEN TemplateEmail(lead)
    ELSE TemplateCall(lead)

\* C3: whatever the generator does (raises, gives no content, an empty
\* string, garbled text, labels with empty bodies), the call returns with
\* whatsapp, email and call_script all non-blank.
C3_NeverBlank ==
    messages.done =>
        \A marker \in Markers : ~IsBlank(FieldOf(messages.result, marker))

\* a reply of labels with empty bodies: every field falls to its template
C3_Witness ==
    /\ messages.done
    /\ call.gen = Gen("text", <<WHATSAPP, NL, NL, CALL>>)
    /\ \A marker \in Markers :
        FieldOf(messages.result, marker) = TemplateOf(call.lead, marker)

\* C4 as stated: for a reply of three blocks with blank lines between
\* them, one per label, each label followed by a distinct non-empty text,
\* each field is exactly the trimmed text after its label and the second
\* pass does not run.
C4_RoundTripAsStated ==
    (messages.done /\ call.shape.family = "blocks") =>
        /\ messages.path = "tier1"
        /\ \A i \in 1..3 :
            FieldOf(messages.result, call.shape.order[i])
                = Strip(call.shape.texts[i])

\* the text after the i-th label without further occurrences of that label
OwnLabelRemoved(shape, i) == Strip(Remove(shape.texts[i], shape.order[i]))

\* C4, amended: for such a reply in which every text is non-blank once the
\* occurrences of its own label are taken out, each field is its text with
\* those occurrences taken out, trimmed, and the second pass does not run.
C4_RoundTrip ==
    (/\ messages.done
     /\ call.shape.family = "blocks"
     /\ \A i \in 1..3 : OwnLabelRemoved(call.shape, i) # <<>>) =>
        /\ messages.path = "tier1"
        /\ \A i \in 1..3 :
            FieldOf(messages.result, call.shape.order[i])
                = OwnLabelRemoved(call.shape, i)

\* blocks in the order CALL, EMAIL, WHATSAPP, one text of two lines and
\* one holding its own label
C4_Witness ==
    /\ messages.done
    /\ call.shape.family = "blocks"
    /\ call.shape.order = <<CALL, EMAIL, WHATSAPP>>
    /\ call.shape.texts = <<<<"c", CALL, "a">>, <<NL, "b">>, <<"b", NL, "c", " ">>>>
    /\ messages.path = "tier1"
    /\ messages.result.call_script = <<"c", "a">>
    /\ messages.result.email = <<"b">>
    /\ messages.result.whatsapp = <<"b", NL, "c">>

\* the text from the i-th label to the next label or the end of the reply
AfterLabel(shape, i) ==
    Strip(IF i < 3 THEN shape.texts[i] \o shape.sep \o shape.prefix
          ELSE shape.texts[i])

\* C5: for a reply in which the three labels each occur once, possibly in
\* the middle of a line, with no blank line between the sections and a
\* non-empty text after each, every field is taken from the reply, none is
\* a template, and each is the text from its label to the next label or
\* the end of the reply.
C5_Tier2RecoversAll ==
    (messages.done /\ call.shape.family = "inline") =>
        \A i \in 1..3 :
            /\ FieldOf(messages.result, call.shape.order[i])
                # TemplateOf(call.lead, call.shape.order[i])
            /\ FieldOf(messages.result, call.shape.order[i])
                = AfterLabel(call.shape, i)

\* C6: when the generation call fails (it raises, or its response has no
\* readable content), the result is the three templates of the except
\* branch, built from the lead's name, service interest and location;
\* nothing is parsed and no success-path template is used.
C6_FailureGivesFallback ==
    (messages.done /\ call.gen.kind # "text") =>
        /\ messages.path = "except"
        /\ messages.result = FallbackMessages(call.lead)
        /\ \A marker \in Markers :
            /\ FieldOf(messages.result, marker) # TemplateOf(call.lead, marker)
            /\ \E i, j \in 1..Len(FieldOf(messages.result, marker)) :
                /\ FieldOf(messages.result, marker)[i] = call.lead.name
                /\ FieldOf(messages.result, marker)[j] = call.lead.service_interest
        /\ \E i \in 1..Len(messages.result.email) :
            messages.result.email[i] = call.lead.location

\* the response came back but its content is None
C6_Witness ==
    /\ messages.done
    /\ call.gen.kind = "content_none"
    /\ call.lead.name = "Asha"
    /\ messages.result = FallbackMessages(call.lead)

\* the line-by-line scan as the specification describes it: the buffer of
\* the active section goes to that section's field at every marker line
StoreBuffer(st) ==
    IF ~Active(st) THEN st
    ELSE [st EXCEPT ![st.current_section] = Buffer(st)]

ScanLine(st, line) ==
    IF Contains(line, WHATSAPP)
    THEN Open(StoreBuffer(st), "whatsapp", line, WHATSAPP)
    ELSE IF Contains(line, EMAIL)
    THEN Open(StoreBuffer(st), "email", line, EMAIL)
    ELSE IF Contains(line, CALL)
    THEN Open(StoreBuffer(st), "call", line, CALL)
    ELSE IF st.current_section # "none"
    THEN [st EXCEPT !.section_content = Append(@, line)]
    ELSE st

RECURSIVE ScanLoop(_, _)
ScanLoop(st, lines) ==
    IF lines = <<>> THEN st
    ELSE ScanLoop(ScanLine(st, Head(lines)), Tail(lines))

\* ... and, for the last active section, at the end of the input
Scan(st, response_text) ==
    StoreBuffer(ScanLoop([st EXCEPT !.current_section = "none",
                                    !.section_content = <<>>],
                         Split(response_text, <<NL>>)))

\* C11: when the second pass runs, the buffer of the active section is
\* stored in that section's field at every marker line and, for the last
\* active section, at the end of the input, whichever of the three
\* sections it is and whatever the order of the markers: the fields
\* returned are those of a scan that stores every buffer.
C11_EveryBufferStored ==
    (messages.done /\ messages.path = "tier2") =>
        messages.result
            = WithTemplates(call.lead,
                            Scan(Tier1(call.gen.text), call.gen.text))

\* one of the parser's three message variables
VarOf(st, marker) ==
    IF marker = WHATSAPP THEN st.whatsapp
    ELSE IF marker = EMAIL THEN st.email
    ELSE st.call

\* C12: when the second pass runs, every field that the first pass left
\* non-empty is returned as text parsed from the reply, not as a template.
C12_Tier1FieldsKept ==
    (messages.done /\ messages.path = "tier2") =>
        \A marker \in Markers :
            VarOf(Tier1(call.gen.text), marker) # <<>> =>
                /\ VarOf(Parse(call.gen.text), marker) # <<>>
                /\ FieldOf(messages.result, marker)
                    # TemplateOf(call.lead, marker)

-----------------------------------------------------------------------------
(* Properties of the dashboard and of the listing.                         *)

NumberOf(category) ==
    Cardinality({i \in 1..Len(leads_db) : leads_db[i].category = category})

\* C7: the dashboard reports total_leads equal to the number of leads
\* stored and hot_count + warm_count + cold_count = total_leads; on an
\* empty store all four counts are 0 and source_distribution is empty.
C7_CountsAddUp ==
    response.op = "dashboard" =>
        /\ response.total_leads = Len(leads_db)
        /\ response.hot_count + response.warm_count + response.cold_count
            = response.total_leads
        /\ response.hot_count = NumberOf("Hot")
        /\ response.warm_count = NumberOf("Warm")
        /\ response.cold_count = NumberOf("Cold")
        /\ leads_db = <<>> =>
            /\ response.total_leads = 0
            /\ response.hot_count = 0
            /\ response.warm_count = 0
            /\ response.cold_count = 0
            /\ DOMAIN response.source_distribution = {}

\* the dashboard of a full store with a lead scored exactly 70
C7_Witness ==
    /\ response.op = "dashboard"
    /\ response.total_leads = MaxLeads
    /\ response.hot_count >= 1
    /\ response.warm_count >= 1
    /\ response.cold_count >= 1
    /\ \E i \in 1..Len(leads_db) : leads_db[i].score = 70

Readable(doc) == fromisoformat(doc.timestamp).ok

\* how many stored leads have a parseable timestamp of this hour
Occurrences(hour) ==
    Cardinality({i \in 1..Len(leads_db) :
                    Readable(leads_db[i])
                    /\ fromisoformat(leads_db[i].timestamp).hour = hour})

\* the hours, 0 to 23, of the stored leads whose timestamp parses
StoredHours ==
    {h \in 0..23 :
        \E i \in 1..Len(leads_db) :
            Readable(leads_db[i]) /\ fromisoformat(leads_db[i].timestamp).hour = h}

\* the hours among these that occur most often
MostFrequentOf(hours) ==
    {h \in hours : \A g \in hours : Occurrences(g) <= Occurrences(h)}

MostFrequent == MostFrequentOf(StoredHours)

LowestMostFrequent == Lowest(MostFrequent)

\* the place in the store of the first lead of this hour
FirstLeadOf(hour) ==
    Lowest({i \in 1..Len(leads_db) :
                Readable(leads_db[i])
                /\ fromisoformat(leads_db[i].timestamp).hour = hour})

\* among these hours, the one whose first lead was stored first
EarliestOf(hours) ==
    CHOOSE h \in hours : \A g \in hours : FirstLeadOf(h) <= FirstLeadOf(g)

EarliestMostFrequent == EarliestOf(MostFrequent)

LabelOf(hour) ==
    IF hour \in 9..11 THEN "Morning (9 AM - 12 PM)"
    ELSE IF hour \in 12..14 THEN "Afternoon (12 PM - 3 PM)"
    ELSE IF hour \in 15..17 THEN "Late Afternoon (3 PM - 6 PM)"
    ELSE IF hour \in 18..20 THEN "Evening (6 PM - 9 PM)"
    ELSE "Off Hours"

\* C8 as stated: best_time_of_day is the label of the most frequent hour,
\* a tie going to the lowest hour whatever the order of the uploads.
C8_LowestHourOnTie ==
    (response.op = "dashboard" /\ MostFrequent # {}) =>
        response.best_time_of_day = LabelOf(LowestMostFrequent)

\* C8, amended: best_time_of_day is the label of the most frequent hour,
\* a tie going to the hour whose first lead comes first in the store, that
\* is, was uploaded first.
C8_FirstStoredOnTie ==
    (response.op = "dashboard" /\ MostFrequent # {}) =>
        response.best_time_of_day = LabelOf(EarliestMostFrequent)

\* a lead of hour 14 uploaded before a lead of hour 9: a tie
C8_Witness ==
    /\ response.op = "dashboard"
    /\ Len(leads_db) = 2
    /\ fromisoformat(leads_db[1].timestamp).hour = 14
    /\ fromisoformat(leads_db[2].timestamp).hour = 9
    /\ leads_db[1].id < leads_db[2].id
    /\ response.best_time_of_day = "Afternoon (12 PM - 3 PM)"

\* C9: a lead whose timestamp does not parse does not make the dashboard
\* fail; it is counted in total_leads, in its category count and in
\* source_distribution, adds nothing to the hour counts, and
\* best_time_of_day is "No data" exactly when no stored timestamp parses.
C9_UnparseableTolerated ==
    response.op = "dashboard" =>
        /\ response.status = 200
        /\ response.total_leads = Len(leads_db)
        /\ response.hot_count = NumberOf("Hot")
        /\ response.warm_count = NumberOf("Warm")
        /\ response.cold_count = NumberOf("Cold")
        /\ \A i \in 1..Len(leads_db) :
            /\ leads_db[i].source \in DOMAIN response.source_distribution
            /\ response.source_distribution[leads_db[i].source]
                = Cardinality({j \in 1..Len(leads_db) :
                                  leads_db[j].source = leads_db[i].source})
        /\ response.best_time_of_day = "No data"
            <=> \A i \in 1..Len(leads_db) : ~Readable(leads_db[i])
        /\ MostFrequent # {} =>
            response.best_time_of_day = LabelOf(EarliestMostFrequent)

\* two leads without a parseable timestamp stored around one of hour 9
C9_Witness ==
    /\ response.op = "dashboard"
    /\ Len(leads_db) = 3
    /\ ~Readable(leads_db[1])
    /\ Readable(leads_db[2])
    /\ ~Readable(leads_db[3])
    /\ response.total_leads = 3
    /\ response.cold_count = 2
    /\ response.best_time_of_day = "Morning (9 AM - 12 PM)"

\* C10: the listing returns exactly the stored leads, each once, in
\* non-increasing order of score.
C10_ListSorted ==
    response.op = "list" =>
        /\ Len(response.leads) = Len(leads_db)
        /\ \A i \in 1..Len(leads_db) :
            Cardinality({j \in 1..Len(response.leads) :
                            response.leads[j] = leads_db[i]}) = 1
        /\ \A j \in 1..(Len(response.leads) - 1) :
            response.leads[j].score >= response.leads[j + 1].score

\* a listing that had to move a lead ahead of two stored before it
C10_Witness ==
    /\ response.op = "list"
    /\ Len(leads_db) = 3
    /\ leads_db[1].score < leads_db[3].score
    /\ leads_db[2].score < leads_db[3].score
    /\ response.leads[1] = leads_db[3]

-----------------------------------------------------------------------------
(* Properties of the upload.                                               *)

\* C13: an upload that answers 400 leaves the store as it was before the
\* request; an upload that answers 200 with count n adds exactly n leads,
\* after those already stored.
C13_UploadAllOrNothing ==
    [][response'.op = "upload" =>
        /\ response'.status = 400 => leads_db' = leads_db
        /\ response'.status = 200 =>
            /\ Len(leads_db') = Len(leads_db) + response'.count
            /\ SubSeq(leads_db', 1, Len(leads_db)) = leads_db]_vars

=============================================================================
